---------------------------- MODULE Spec2Model ----------------------------
(***************************************************************************)
(* Laminate cutting optimizer (src/app.py): the run started by the         *)
(* "Generate Cutting Plan" button.  For every laminate code the panel text *)
(* is parsed into pieces, the pieces are inflated by the kerf and handed   *)
(* to rectpack's offline packer (newPacker(mode=1, bin_algo=2,             *)
(* rotation=False): PackerBBF over MaxRectsBssf bins, rectangles sorted by *)
(* decreasing area), every opened bin is drawn and its waste recorded, and *)
(* the number of opened bins is stored per code.                           *)
(*                                                                         *)
(* Text is a sequence of one-character strings.  Line 124 of the source is *)
(* read at the indentation of the block it stands in.                      *)
(***************************************************************************)
EXTENDS Integers, Sequences, FiniteSets

(***************************************************************************)
(* Bounds of the model.                                                    *)
(***************************************************************************)
MaxMaterials == 2
MaxLines == 2

(***************************************************************************)
(* Program constants.                                                      *)
(***************************************************************************)
MaxBins == 100
LabelMinW == 50
LabelMinH == 15

standard_sizes == { <<1220, 2440>>, <<1830, 2440>>, <<1830, 1830>> }

(***************************************************************************)
(* Characters and the conversions between digit strings and numbers.       *)
(***************************************************************************)
Digit == {"0", "1", "2", "3", "4", "5", "6", "7", "8", "9"}
Space == {" ", "\t"}
Sep == {"x", "X"}
NL == "\n"
WhiteSpace == Space \cup {NL}

DigitVal(c) ==
  CASE c = "0" -> 0 [] c = "1" -> 1 [] c = "2" -> 2 [] c = "3" -> 3
    [] c = "4" -> 4 [] c = "5" -> 5 [] c = "6" -> 6 [] c = "7" -> 7
    [] c = "8" -> 8 [] c = "9" -> 9

DigitChar(d) ==
  CASE d = 0 -> "0" [] d = 1 -> "1" [] d = 2 -> "2" [] d = 3 -> "3"
    [] d = 4 -> "4" [] d = 5 -> "5" [] d = 6 -> "6" [] d = 7 -> "7"
    [] d = 8 -> "8" [] d = 9 -> "9"

\* int(s) for a non-empty run of digits s.
RECURSIVE ParseInt(_)
ParseInt(s) ==
  IF Len(s) = 0 THEN 0
  ELSE 10 * ParseInt(SubSeq(s, 1, Len(s) - 1)) + DigitVal(s[Len(s)])

\* The decimal digits of n >= 0, as the user types them.
RECURSIVE Str(_)
Str(n) ==
  IF n < 10 THEN <<DigitChar(n)>>
  ELSE Str(n \div 10) \o <<DigitChar(n % 10)>>

(***************************************************************************)
(* panel_text.strip().splitlines()                                         *)
(***************************************************************************)
RECURSIVE LStrip(_)
LStrip(s) ==
  IF Len(s) > 0 /\ s[1] \in WhiteSpace THEN LStrip(Tail(s)) ELSE s

RECURSIVE RStrip(_)
RStrip(s) ==
  IF Len(s) > 0 /\ s[Len(s)] \in WhiteSpace
  THEN RStrip(SubSeq(s, 1, Len(s) - 1)) ELSE s

Strip(s) == RStrip(LStrip(s))

\* The index of the first NL of s at or after i, Len(s) + 1 when there is none.
RECURSIVE FindNL(_, _)
FindNL(s, i) ==
  IF i > Len(s) THEN i
  ELSE IF s[i] = NL THEN i ELSE FindNL(s, i + 1)

RECURSIVE SplitLines(_)
SplitLines(s) ==
  IF Len(s) = 0 THEN << >>
  ELSE LET k == FindNL(s, 1)
       IN  <<SubSeq(s, 1, k - 1)>> \o SplitLines(SubSeq(s, k + 1, Len(s)))

(***************************************************************************)
(* The regular expression matched against each line (re.match): optional   *)
(* whitespace, digits, optional whitespace, x or X, optional whitespace,   *)
(* digits, optional whitespace, any run of x, X and whitespace, and an     *)
(* optional run of digits.  Every element is a greedy run over a character *)
(* class and the class that follows a run never accepts the character that *)
(* ended it (the final two runs may both be empty), so the match           *)
(* is a single left-to-right scan; the pattern is anchored at the start of *)
(* the line only.                                                          *)
(***************************************************************************)
\* The first index at or after i whose character is not in class.
RECURSIVE SkipWhile(_, _, _)
SkipWhile(s, i, class) ==
  IF i <= Len(s) /\ s[i] \in class THEN SkipWhile(s, i + 1, class) ELSE i

NoMatch == [matched |-> FALSE, g1 |-> << >>, g2 |-> << >>, g3 |-> << >>]

PanelMatch(line) ==
  LET a1 == SkipWhile(line, 1, Space)
      b1 == SkipWhile(line, a1, Digit)
      a2 == SkipWhile(line, b1, Space)
      a3 == SkipWhile(line, a2 + 1, Space)
      b3 == SkipWhile(line, a3, Digit)
      a4 == SkipWhile(line, b3, Space)
      a5 == SkipWhile(line, a4, Sep \cup Space)
      b5 == SkipWhile(line, a5, Digit)
  IN  IF b1 = a1 THEN NoMatch
      ELSE IF a2 > Len(line) \/ line[a2] \notin Sep THEN NoMatch
      ELSE IF b3 = a3 THEN NoMatch
      ELSE [matched |-> TRUE,
            g1 |-> SubSeq(line, a1, b1 - 1),
            g2 |-> SubSeq(line, a3, b3 - 1),
            g3 |-> SubSeq(line, a5, b5 - 1)]

\* qty copies of piece.
Repeat(piece, qty) == [i \in 1..qty |-> piece]

\* LinePieces with a missing quantity read as 0 instead of 1.
LinePiecesNoDefault(line) ==
  LET match == PanelMatch(line)
  IN  IF match.matched
      THEN Repeat(<<ParseInt(match.g1), ParseInt(match.g2)>>,
                  ParseInt(match.g3))
      ELSE << >>

\* The pieces one line of the panel text appends (lines 56-61).
LinePieces(line) ==
  LET match == PanelMatch(line)
  IN  IF match.matched
      THEN LET w == ParseInt(match.g1)
               h == ParseInt(match.g2)
               qty == IF Len(match.g3) > 0 THEN ParseInt(match.g3) ELSE 1
           IN  Repeat(<<w, h>>, qty)
      ELSE << >>

(***************************************************************************)
(* rectpack geometry: a Rectangle is [x, y, width, height] (placed ones    *)
(* carry a rid as well); bottom = y, top = y + height, left = x,           *)
(* right = x + width.                                                      *)
(***************************************************************************)
Rect(x, y, w, h) == [x |-> x, y |-> y, width |-> w, height |-> h]

Placed(x, y, w, h, rid) ==
  [x |-> x, y |-> y, width |-> w, height |-> h, rid |-> rid]

\* Rectangle.intersects(rect, edges=False)
Intersects(a, b) ==
  ~ ( a.y >= b.y + b.height \/ a.y + a.height <= b.y
      \/ a.x >= b.x + b.width \/ a.x + a.width <= b.x )

\* Rectangle.contains(rect)
Contains(a, b) ==
  /\ b.y >= a.y
  /\ b.x >= a.x
  /\ b.y + b.height <= a.y + a.height
  /\ b.x + b.width <= a.x + a.width

Min(a, b) == IF a <= b THEN a ELSE b

(***************************************************************************)
(* MaxRectsBssf, rot = False.  A bin is [max_rects, rectangles].  None is  *)
(* written -1: every fitness is >= 0.                                      *)
(***************************************************************************)
None == -1

NewBin(sheet_w, sheet_h) ==
  [max_rects |-> <<Rect(0, 0, sheet_w, sheet_h)>>, rectangles |-> << >>]

\* RectFitness without the test of the height.
RectFitnessWidthOnly(m, w, h) ==
  IF w > m.width THEN None
  ELSE Min(m.width - w, IF m.height >= h THEN m.height - h ELSE h - m.height)

\* MaxRectsBssf._rect_fitness
RectFitness(m, w, h) ==
  IF w > m.width \/ h > m.height THEN None
  ELSE Min(m.width - w, m.height - h)

\* MaxRects._select_position: the index of the first max_rect of least
\* fitness among those the rectangle fits in, 0 when it fits in none.
SelectPosition(bin, w, h) ==
  LET fit == { i \in 1..Len(bin.max_rects) :
                 RectFitness(bin.max_rects[i], w, h) # None }
  IN  IF fit = {} THEN 0
      ELSE CHOOSE i \in fit :
             \A j \in fit :
               LET fi == RectFitness(bin.max_rects[i], w, h)
                   fj == RectFitness(bin.max_rects[j], w, h)
               IN  fi < fj \/ (fi = fj /\ i <= j)

\* MaxRects.fitness
BinFitness(bin, w, h) ==
  LET i == SelectPosition(bin, w, h)
  IN  IF i = 0 THEN None ELSE RectFitness(bin.max_rects[i], w, h)

\* MaxRects._generate_splits
GenerateSplits(m, r) ==
  (IF r.x > m.x
   THEN <<Rect(m.x, m.y, r.x - m.x, m.height)>> ELSE << >>)
  \o (IF r.x + r.width < m.x + m.width
      THEN <<Rect(r.x + r.width, m.y, m.x + m.width - (r.x + r.width), m.height)>>
      ELSE << >>)
  \o (IF r.y + r.height < m.y + m.height
      THEN <<Rect(m.x, r.y + r.height, m.width, m.y + m.height - (r.y + r.height))>>
      ELSE << >>)
  \o (IF r.y > m.y
      THEN <<Rect(m.x, m.y, m.width, r.y - m.y)>> ELSE << >>)

\* Split that leaves the free rectangles as they are.
SplitNothing(max_rects, rect) == max_rects

\* MaxRects._split
RECURSIVE Split(_, _)
Split(max_rects, rect) ==
  IF Len(max_rects) = 0 THEN << >>
  ELSE (IF Intersects(Head(max_rects), rect)
        THEN GenerateSplits(Head(max_rects), rect)
        ELSE <<Head(max_rects)>>)
       \o Split(Tail(max_rects), rect)

\* MaxRects._remove_duplicates: the set of contained rectangles is a set of
\* values, so every copy of a rectangle found contained is removed.
RemoveDuplicates(max_rects) ==
  LET n == Len(max_rects)
      contained ==
        { max_rects[j] : j \in { j \in 1..n :
            \E i \in 1..(j - 1) : Contains(max_rects[i], max_rects[j]) } }
        \cup
        { max_rects[i] : i \in { i \in 1..n :
            \E j \in (i + 1)..n :
              /\ ~ Contains(max_rects[i], max_rects[j])
              /\ Contains(max_rects[j], max_rects[i]) } }
  IN  SelectSeq(max_rects, LAMBDA m : m \notin contained)

\* MaxRects.add_rect, for a rectangle that fits (SelectPosition # 0).
BinAddRect(bin, w, h, rid) ==
  LET m == bin.max_rects[SelectPosition(bin, w, h)]
      rect == Rect(m.x, m.y, w, h)
  IN  [max_rects |-> RemoveDuplicates(Split(bin.max_rects, rect)),
       rectangles |-> Append(bin.rectangles, Placed(m.x, m.y, w, h, rid))]

\* PackingAlgorithm._fits_surface, rot = False
FitsSurface(sheet_w, sheet_h, w, h) == ~ (w > sheet_w \/ h > sheet_h)

(***************************************************************************)
(* SORT_AREA: sorted(rectlist, reverse=True, key=area), a stable sort.     *)
(* A rectangle of the list is <<width, height, rid>>.                      *)
(***************************************************************************)
Area(r) == r[1] * r[2]

\* The place of rectlist[i] in the sorted list: behind every rectangle of
\* larger area and every earlier one of the same area.
SortRank(rectlist, i) ==
  1 + Cardinality({ j \in 1..Len(rectlist) :
                      \/ Area(rectlist[j]) > Area(rectlist[i])
                      \/ (Area(rectlist[j]) = Area(rectlist[i]) /\ j < i) })

SortArea(rectlist) ==
  [k \in 1..Len(rectlist) |->
     rectlist[CHOOSE i \in 1..Len(rectlist) : SortRank(rectlist, i) = k]]

(***************************************************************************)
(* PackerBBFMixin.add_rect on the opened bins and the count of unopened    *)
(* ones (every bin factory holds one bin of the sheet's size).             *)
(***************************************************************************)
\* The index of the first opened bin of least fitness, 0 when none fits.
BestBin(bins, w, h) ==
  LET fit == { b \in 1..Len(bins) : BinFitness(bins[b], w, h) # None }
  IN  IF fit = {} THEN 0
      ELSE CHOOSE b \in fit :
             \A c \in fit :
               LET fb == BinFitness(bins[b], w, h)
                   fc == BinFitness(bins[c], w, h)
               IN  fb < fc \/ (fb = fc /\ b <= c)

\* The packer [open, empty] after add_rect(w, h, rid).
PackerAddRect(packer, sheet_w, sheet_h, w, h, rid) ==
  LET best == BestBin(packer.open, w, h)
  IN  IF best # 0
      THEN [packer EXCEPT !.open[best] = BinAddRect(@, w, h, rid)]
      ELSE IF packer.empty > 0 /\ FitsSurface(sheet_w, sheet_h, w, h)
      THEN [open |-> Append(packer.open,
                            BinAddRect(NewBin(sheet_w, sheet_h), w, h, rid)),
            empty |-> packer.empty - 1]
      ELSE packer

(***************************************************************************)
(* Kerf adjustment (lines 69 and 86) and the per-sheet accounting.         *)
(***************************************************************************)
\* packer.add_rect(w + kerf, h + kerf, rid=i)
Inflate(piece, k, rid) == <<piece[1] + k, piece[2] + k, rid>>

\* The list handed to the packer: enumerate(pieces), rid from 0.
RectList(ps, k) == [i \in 1..Len(ps) |-> Inflate(ps[i], k, i - 1)]

\* TrueSize with the kerf taken off twice.
TrueSizeTwice(rect, k) == <<rect.width - 2 * k, rect.height - 2 * k>>

\* w, h = rect.width - kerf, rect.height - kerf
TrueSize(rect, k) == <<rect.width - k, rect.height - k>>

\* UsedArea over the inflated footprints.
RECURSIVE UsedAreaInflated(_, _)
UsedAreaInflated(rects, k) ==
  IF Len(rects) = 0 THEN 0
  ELSE Head(rects).width * Head(rects).height
       + UsedAreaInflated(Tail(rects), k)

\* used_area of one bin (lines 83-95).
RECURSIVE UsedArea(_, _)
UsedArea(rects, k) ==
  IF Len(rects) = 0 THEN 0
  ELSE LET t == TrueSize(Head(rects), k)
       IN  t[1] * t[2] + UsedArea(Tail(rects), k)

\* Whether a panel of true size t gets its own label settings (line 90).
LabelFits(t) == t[1] > LabelMinW /\ t[2] > LabelMinH

\* Line 93 reads font_size and rotation for every panel; they are assigned
\* at lines 91-92 only for a panel that LabelFits, and keep their value from
\* one panel, sheet and laminate code to the next.  TRUE when drawing rects
\* reaches line 93 with the names still unassigned (a NameError).
RECURSIVE LabelUnset(_, _, _)
LabelUnset(rects, k, font_set) ==
  IF Len(rects) = 0 THEN FALSE
  ELSE LET now == font_set \/ LabelFits(TrueSize(Head(rects), k))
       IN  ~ now \/ LabelUnset(Tail(rects), k, now)

\* The digits of num / den after the decimal point are produced one at a time,
\* so that no intermediate product leaves 32 bits.
RECURSIVE ScaledDiv(_, _, _)
ScaledDiv(num, den, digits) ==
  IF digits = 0 THEN num \div den
  ELSE (num \div den) * 10 ^ digits
       + ScaledDiv((num % den) * 10, den, digits - 1)

\* waste_pct as it is written with two decimals, in hundredths of a percent
\* (lines 97-100); the rounding is that of the exact quotient, half up.
WastePct(used_area, sheet_w, sheet_h) ==
  LET total_area == sheet_w * sheet_h
      waste == total_area - used_area
  IN  IF total_area = 0 THEN 0
      ELSE (ScaledDiv(waste, total_area, 5) + 5) \div 10

(***************************************************************************)
(* The inputs of a run: the kerf and, per laminate code, the code, the     *)
(* sheet size chosen among standard_sizes and the panel text.              *)
(***************************************************************************)
Kerfs == {0, 3}

\* A panel line as typed: qty = -1 leaves the quantity out.
PanelLine(w, h, qty, style) ==
  LET sep == CASE style = "tight" -> <<"x">>
               [] style = "upper" -> <<"X">>
               [] style = "spaced" -> <<" ", "x", " ">>
               [] style = "padded" -> <<"\t", "x">>
      lead == IF style = "padded" THEN <<" ">> ELSE << >>
      trail == IF style = "padded" THEN <<" ">> ELSE << >>
  IN  lead \o Str(w) \o sep \o Str(h)
      \o (IF qty < 0 THEN << >> ELSE sep \o Str(qty)) \o trail

\* The lines joined by newlines.
RECURSIVE JoinLines(_)
JoinLines(ls) ==
  IF Len(ls) = 0 THEN << >>
  ELSE IF Len(ls) = 1 THEN ls[1]
  ELSE ls[1] \o <<NL>> \o JoinLines(Tail(ls))

\* Lines that try the parser: well-formed ones in every style, and others.
ProbeLines ==
  { PanelLine(60, 120, qty, style) :
      qty \in {-1, 2}, style \in {"tight", "upper", "spaced", "padded"} }
  \cup { PanelLine(60, 7, 0, "tight"),
         PanelLine(7, 60, -1, "spaced"),
         << >>,
         <<" ">>,
         <<"a", "b">>,
         Str(60) \o <<" ">> \o Str(120),
         Str(60) \o <<"x">>,
         <<"x">> \o Str(60),
         <<"6", " ", "0", "x">> \o Str(120),
         Str(60) \o <<"x">> \o Str(120) \o <<"m", "m">>,
         Str(60) \o <<"x">> \o Str(120) \o <<"x">>,
         Str(60) \o <<"x">> \o Str(120) \o <<" ">> \o Str(2),
         Str(60) \o <<"x">> \o Str(120) \o <<"x", " ", "X">> \o Str(2),
         Str(60) \o <<"x">> \o Str(120) \o <<"x">> \o Str(2) \o <<".", "5">>,
         Str(60) \o <<"x">> \o Str(120) \o <<"x">> \o Str(2) \o <<"x">> \o Str(3),
         Str(60) \o <<".", "5", "x">> \o Str(120) }

RECURSIVE SeqsUpTo(_, _)
SeqsUpTo(S, n) ==
  IF n = 0 THEN { << >> }
  ELSE LET shorter == SeqsUpTo(S, n - 1)
       IN  shorter \cup { Append(q, e) : q \in shorter, e \in S }

Material(code, sheet, text) == [code |-> code, sheet |-> sheet, text |-> text]

\* One laminate code whose text holds up to MaxLines probe lines.
ProbeInputs ==
  { <<Material("A", <<1220, 2440>>, JoinLines(ls))>> :
      ls \in SeqsUpTo(ProbeLines, MaxLines) \ { << >> } }

\* The default text of the form (line 41).
DefaultText ==
  JoinLines(<<PanelLine(450, 600, 2, "tight"),
              PanelLine(300, 1200, 3, "spaced"),
              PanelLine(750, 400, 4, "tight")>>)

PackMaterials ==
  { Material("A", <<1220, 2440>>, DefaultText),
    Material("B", <<1220, 2440>>, PanelLine(610, 2440, 2, "tight")),
    Material("A", <<1830, 2440>>,
             JoinLines(<<PanelLine(2000, 3000, 1, "tight"),
                         PanelLine(1830, 2440, -1, "tight"),
                         PanelLine(900, 1200, 3, "upper")>>)),
    Material("B", <<1830, 1830>>,
             JoinLines(<<PanelLine(0, 2000, -1, "tight"),
                         PanelLine(0, 600, -1, "tight"),
                         PanelLine(450, 600, -1, "tight")>>)),
    Material("A", <<1830, 1830>>, <<NL, " ", NL>>),
    Material("C", <<1220, 2440>>, PanelLine(2000, 3000, 1, "tight")),
    Material("B", <<1830, 2440>>,
             JoinLines(<<PanelLine(40, 10, 2, "tight"),
                         PanelLine(915, 1220, 4, "tight")>>)) }

\* Up to MaxMaterials laminate codes.
PackInputs == SeqsUpTo(PackMaterials, MaxMaterials) \ { << >> }

\* More full-sheet panels than there are bins.
CapInputs ==
  { <<Material("A", <<1830, 1830>>, PanelLine(1830, 1830, MaxBins + 1, "tight"))>>,
    <<Material("A", <<1830, 1830>>,
               JoinLines(<<PanelLine(1830, 1830, MaxBins, "tight"),
                           PanelLine(1000, 1000, 2, "tight")>>))>> }

InputLists == ProbeInputs \cup PackInputs \cup CapInputs

(***************************************************************************)
(* The state of a run.                                                     *)
(***************************************************************************)
VARIABLES
  kerf,             \* the saw blade thickness (line 31)
  laminate_inputs,  \* the (code, sheet size, panel text) list (line 42)
  pc,               \* where the run stands
  mi,               \* the index of the laminate code being processed
  lines,            \* panel_text.strip().splitlines() of that code
  li,               \* the index of the next line to parse
  pieces,           \* the pieces parsed so far (line 54)
  sorted_rect,      \* the packer's rectangles, sorted, once pack() runs
  ri,               \* the index of the next rectangle pack() adds
  packer,           \* [open: the opened bins, empty: the unopened count]
  sheet_id,         \* the number of bins already drawn
  font_set,         \* whether font_size and rotation are assigned
  summary_data,     \* the per-sheet rows (line 100)
  all_sheets,       \* code -> number of sheets (line 113)
  errors            \* what st.error reported (line 64)

vars == <<kerf, laminate_inputs, pc, mi, lines, li, pieces, sorted_rect, ri,
          packer, sheet_id, font_set, summary_data, all_sheets, errors>>

inputs == <<kerf, laminate_inputs>>
parse_vars == <<lines, li, pieces>>
pack_vars == <<sorted_rect, ri, packer>>
output_vars == <<summary_data, all_sheets, errors>>

NoPacker == [open |-> << >>, empty |-> 0]

Cur == laminate_inputs[mi]

Init ==
  /\ kerf \in Kerfs
  /\ laminate_inputs \in InputLists
  /\ pc = "next"
  /\ mi = 1
  /\ lines = << >>
  /\ li = 1
  /\ pieces = << >>
  /\ sorted_rect = << >>
  /\ ri = 1
  /\ packer = NoPacker
  /\ sheet_id = 0
  /\ font_set = FALSE
  /\ summary_data = << >>
  /\ all_sheets = << >>
  /\ errors = << >>

(***************************************************************************)
(* all_sheets is a dict: a list of [code, count] in insertion order, a     *)
(* code at most once.                                                      *)
(***************************************************************************)
HasKey(d, code) == \E i \in 1..Len(d) : d[i].code = code

\* d[code] = count
DictSet(d, code, count) ==
  IF HasKey(d, code)
  THEN [i \in 1..Len(d) |->
          IF d[i].code = code THEN [code |-> code, count |-> count] ELSE d[i]]
  ELSE Append(d, [code |-> code, count |-> count])

(***************************************************************************)
(* The run (lines 45-133), one action per step of its loops.               *)
(***************************************************************************)
\* Line 53-55: the next laminate code, its text stripped and split.
StartMaterial ==
  /\ pc = "next"
  /\ mi <= Len(laminate_inputs)
  /\ pieces' = << >>
  /\ lines' = SplitLines(Strip(Cur.text))
  /\ li' = 1
  /\ pc' = "parse"
  /\ UNCHANGED <<inputs, mi, pack_vars, sheet_id, font_set, output_vars>>

\* Lines 55-61: one line of the text.
ParseLine ==
  /\ pc = "parse"
  /\ li <= Len(lines)
  /\ pieces' = pieces \o LinePieces(lines[li])
  /\ li' = li + 1
  /\ UNCHANGED <<inputs, pc, mi, lines, pack_vars, sheet_id, font_set,
                 output_vars>>

\* NoPanels without the skip: the empty packer's bin count is stored.
NoPanelsCounted ==
  /\ pc = "parse"
  /\ li > Len(lines)
  /\ pieces = << >>
  /\ errors' = Append(errors, [kind |-> "no_panels", code |-> Cur.code])
  /\ all_sheets' = DictSet(all_sheets, Cur.code, 0)
  /\ mi' = mi + 1
  /\ pc' = "next"
  /\ UNCHANGED <<inputs, parse_vars, pack_vars, sheet_id, font_set,
                 summary_data>>

\* Lines 63-65: no pieces, the code is reported and skipped.
NoPanels ==
  /\ pc = "parse"
  /\ li > Len(lines)
  /\ pieces = << >>
  /\ errors' = Append(errors, [kind |-> "no_panels", code |-> Cur.code])
  /\ mi' = mi + 1
  /\ pc' = "next"
  /\ UNCHANGED <<inputs, parse_vars, pack_vars, sheet_id, font_set,
                 summary_data, all_sheets>>

\* Lines 67-72, up to the loop of pack(): a new packer, the inflated pieces
\* added and sorted by area, MaxBins bins of the sheet's size added.
SetupPacker ==
  /\ pc = "parse"
  /\ li > Len(lines)
  /\ pieces # << >>
  /\ sorted_rect' = SortArea(RectList(pieces, kerf))
  /\ ri' = 1
  /\ packer' = [open |-> << >>, empty |-> MaxBins]
  /\ pc' = "pack"
  /\ UNCHANGED <<inputs, mi, parse_vars, sheet_id, font_set, output_vars>>

\* pack(): the next rectangle of the sorted list; after the last one the
\* drawing loop starts.
PackRect ==
  /\ pc = "pack"
  /\ ri <= Len(sorted_rect)
  /\ LET r == sorted_rect[ri]
     IN  /\ r[1] > 0 /\ r[2] > 0
         /\ packer' = PackerAddRect(packer, Cur.sheet[1], Cur.sheet[2],
                                    r[1], r[2], r[3])
  /\ ri' = ri + 1
  /\ pc' = IF ri = Len(sorted_rect) THEN "draw" ELSE "pack"
  /\ sheet_id' = 0
  /\ UNCHANGED <<inputs, mi, parse_vars, sorted_rect, font_set, output_vars>>

\* pack(): rectpack asserts width > 0 and height > 0; the run ends there.
PackAssert ==
  /\ pc = "pack"
  /\ ri <= Len(sorted_rect)
  /\ ~ (sorted_rect[ri][1] > 0 /\ sorted_rect[ri][2] > 0)
  /\ pc' = "crashed"
  /\ UNCHANGED <<inputs, mi, parse_vars, pack_vars, sheet_id, font_set,
                 output_vars>>

\* Lines 74-111: one opened bin is drawn and its waste row recorded.
DrawSheet ==
  /\ pc = "draw"
  /\ sheet_id < Len(packer.open)
  /\ LET abin == packer.open[sheet_id + 1]
     IN  /\ ~ LabelUnset(abin.rectangles, kerf, font_set)
         /\ font_set' =
              (font_set \/ \E i \in 1..Len(abin.rectangles) :
                              LabelFits(TrueSize(abin.rectangles[i], kerf)))
         /\ summary_data' =
              Append(summary_data,
                     [code |-> Cur.code,
                      sheet |-> sheet_id + 1,
                      waste |-> WastePct(UsedArea(abin.rectangles, kerf),
                                         Cur.sheet[1], Cur.sheet[2])])
  /\ sheet_id' = sheet_id + 1
  /\ UNCHANGED <<inputs, pc, mi, parse_vars, pack_vars, all_sheets, errors>>

\* Line 93 raises NameError: no panel has assigned font_size yet.
DrawNameError ==
  /\ pc = "draw"
  /\ sheet_id < Len(packer.open)
  /\ LabelUnset(packer.open[sheet_id + 1].rectangles, kerf, font_set)
  /\ pc' = "crashed"
  /\ UNCHANGED <<inputs, mi, parse_vars, pack_vars, sheet_id, font_set,
                 output_vars>>

\* Line 113: all_sheets[code] = len(packer), then the next code.
EndMaterial ==
  /\ pc = "draw"
  /\ sheet_id = Len(packer.open)
  /\ all_sheets' = DictSet(all_sheets, Cur.code, Len(packer.open))
  /\ mi' = mi + 1
  /\ pc' = "next"
  /\ UNCHANGED <<inputs, parse_vars, pack_vars, sheet_id, font_set,
                 summary_data, errors>>

\* Lines 116-133: every code is done, the tables are shown.
Finish ==
  /\ pc = "next"
  /\ mi > Len(laminate_inputs)
  /\ pc' = "done"
  /\ UNCHANGED <<inputs, mi, parse_vars, pack_vars, sheet_id, font_set,
                 output_vars>>

Next ==
  \/ StartMaterial
  \/ ParseLine
  \/ NoPanels
  \/ SetupPacker
  \/ PackRect
  \/ PackAssert
  \/ DrawSheet
  \/ DrawNameError
  \/ EndMaterial
  \/ Finish

Spec == Init /\ [][Next]_vars

(***************************************************************************)
(* Properties.  While pc is "pack" or "draw" the packer, the pieces and    *)
(* the sheet are those of the laminate code Cur.                           *)
(***************************************************************************)
Packing == pc \in {"pack", "draw"}

SheetW == Cur.sheet[1]
SheetH == Cur.sheet[2]

\* The unit (parsed piece) a placed rectangle came from.
UnitOf(rect) == pieces[rect.rid + 1]

\* <<bin, index>> of every placed rectangle.
PlacedAt ==
  { bi \in (1..Len(packer.open)) \X (1..Len(pieces)) :
      bi[2] <= Len(packer.open[bi[1]].rectangles) }

RectAt(bi) == packer.open[bi[1]].rectangles[bi[2]]

PlacedCount == Cardinality(PlacedAt)

\* Two rectangles share interior points.
Overlap(a, b) ==
  /\ a.x < b.x + b.width
  /\ b.x < a.x + a.width
  /\ a.y < b.y + b.height
  /\ b.y < a.y + a.height

\* C1: after every step of the packing pass, no two panels placed on the same
\* sheet overlap when each is taken at its inflated size (width + kerf,
\* height + kerf) at its placed (x, y).
C1_NoOverlap ==
  Packing =>
    \A b \in 1..Len(packer.open) :
      LET rs == packer.open[b].rectangles
      IN  \A i, j \in 1..Len(rs) :
            i < j =>
              ~ Overlap([x |-> rs[i].x, y |-> rs[i].y,
                         width |-> UnitOf(rs[i])[1] + kerf,
                         height |-> UnitOf(rs[i])[2] + kerf],
                        [x |-> rs[j].x, y |-> rs[j].y,
                         width |-> UnitOf(rs[j])[1] + kerf,
                         height |-> UnitOf(rs[j])[2] + kerf])

\* A sheet holds four panels or more, packed with a kerf.
C1_Witness ==
  /\ pc = "draw"
  /\ kerf > 0
  /\ \E b \in 1..Len(packer.open) : Len(packer.open[b].rectangles) >= 4

\* C2: every placed panel lies inside its sheet at its inflated size, and
\* its footprint is the unit's width + kerf by its height + kerf: it is not
\* rotated.
C2_InBounds ==
  Packing =>
    \A bi \in PlacedAt :
      LET r == RectAt(bi)
          u == UnitOf(r)
      IN  /\ r.x >= 0
          /\ r.y >= 0
          /\ r.x + (u[1] + kerf) <= SheetW
          /\ r.y + (u[2] + kerf) <= SheetH
          /\ r.width = u[1] + kerf
          /\ r.height = u[2] + kerf

\* A panel that is not square lies against the right and against the bottom
\* edge of its sheet, another sheet being open too.
C2_Witness ==
  /\ pc = "draw"
  /\ Len(packer.open) >= 2
  /\ \E bi \in PlacedAt :
       /\ RectAt(bi).x + RectAt(bi).width = SheetW
       /\ RectAt(bi).width # RectAt(bi).height
  /\ \E bi \in PlacedAt : RectAt(bi).y + RectAt(bi).height = SheetH

\* C8: the true size of every placed panel (its footprint minus the kerf) is
\* the size of the parsed unit it came from; with kerf 0 the footprint itself
\* is that size.
C8_KerfRoundTrip ==
  Packing =>
    \A bi \in PlacedAt :
      /\ TrueSize(RectAt(bi), kerf) = UnitOf(RectAt(bi))
      /\ kerf = 0 =>
           <<RectAt(bi).width, RectAt(bi).height>> = UnitOf(RectAt(bi))

\* Panels of several sizes are placed with a kerf.
C8_Witness ==
  /\ pc = "draw"
  /\ kerf > 0
  /\ \E bi, bj \in PlacedAt : UnitOf(RectAt(bi)) # UnitOf(RectAt(bj))

\* The true area of the units placed on bin b.
RECURSIVE UnitArea(_)
UnitArea(rs) ==
  IF Len(rs) = 0 THEN 0
  ELSE UnitOf(Head(rs))[1] * UnitOf(Head(rs))[2] + UnitArea(Tail(rs))

\* The waste row of the b-th sheet of Cur, once drawn.
RowOf(b) == summary_data[Len(summary_data) - sheet_id + b]

\* C9: for every sheet drawn, the used area (true sizes, kerf excluded) is
\* between 0 and the sheet's area, the waste recorded is computed from it and
\* lies between 0% and 100%, and it is 0 when the panels fill the sheet.
C9_WasteBounds ==
  pc = "draw" =>
    \A b \in 1..sheet_id :
      LET used == UnitArea(packer.open[b].rectangles)
      IN  /\ 0 <= used
          /\ used <= SheetW * SheetH
          /\ RowOf(b).waste >= 0
          /\ RowOf(b).waste <= 10000
          /\ RowOf(b).waste = WastePct(used, SheetW, SheetH)
          /\ used = SheetW * SheetH => RowOf(b).waste = 0
          /\ RowOf(b).code = Cur.code
          /\ RowOf(b).sheet = b

\* A sheet filled to its edges is drawn with waste 0, and one with waste.
C9_Witness ==
  /\ pc = "draw"
  /\ sheet_id >= 1
  /\ \E i \in 1..Len(summary_data) : summary_data[i].waste = 0
  /\ \E i \in 1..Len(summary_data) : summary_data[i].waste > 0

\* The unplaced units of laminate code the run reported to the caller.
UnplacedReported(code) ==
  Cardinality({ i \in 1..Len(errors) :
                  errors[i].kind = "unplaced" /\ errors[i].code = code })

\* C3: once a laminate code is packed, the panels placed on its sheets plus
\* the units reported as unplaced are all its units.
C3_Conservation ==
  pc = "draw" => PlacedCount + UnplacedReported(Cur.code) = Len(pieces)

\* The inflated unit exceeds the sheet in width or in height.
Oversized(u) == u[1] + kerf > SheetW \/ u[2] + kerf > SheetH

IsPlaced(i) == \E bi \in PlacedAt : RectAt(bi).rid = i - 1

\* C4: a unit whose inflated size exceeds the sheet is never placed, the step
\* of the packing pass that meets it leaves the packer as it is and goes on
\* to the next unit, and once the pass is over every unit that is not
\* oversized is placed unless all MaxBins sheets are open.
C4_Oversized ==
  /\ [](Packing => \A i \in 1..Len(pieces) :
                     Oversized(pieces[i]) => ~ IsPlaced(i))
  /\ [](pc = "draw" =>
          \A i \in 1..Len(pieces) :
            IsPlaced(i) \/ Oversized(pieces[i]) \/ Len(packer.open) = MaxBins)
  /\ [][ ( /\ pc = "pack"
           /\ ri <= Len(sorted_rect)
           /\ Oversized(pieces[sorted_rect[ri][3] + 1]) )
         => ( /\ packer' = packer
              /\ ri' = ri + 1
              /\ pc' \in {"pack", "draw"} ) ]_vars

\* The pieces the parser makes of a whole panel text.
RECURSIVE PiecesOf(_)
PiecesOf(ls) ==
  IF Len(ls) = 0 THEN << >>
  ELSE PiecesOf(SubSeq(ls, 1, Len(ls) - 1)) \o LinePieces(ls[Len(ls)])

TextPieces(text) == PiecesOf(SplitLines(Strip(text)))

\* The laminate codes among the first n inputs whose text yields no unit, as
\* reports, in input order.
RECURSIVE EmptyReports(_)
EmptyReports(n) ==
  IF n = 0 THEN << >>
  ELSE EmptyReports(n - 1)
       \o (IF TextPieces(laminate_inputs[n].text) = << >>
           THEN <<[kind |-> "no_panels", code |-> laminate_inputs[n].code]>>
           ELSE << >>)

\* C5: a laminate code whose text yields zero units is reported and the step
\* that finds it empty leaves the waste rows, the order summary and the label
\* settings as they are and goes on to the next code; in a finished run the
\* reports name exactly the codes without units, and every waste row and every
\* order summary entry belongs to a code that has units.
C5_EmptyMaterial ==
  /\ [][ (pc = "parse" /\ li > Len(lines) /\ pieces = << >>)
         => ( /\ summary_data' = summary_data
              /\ all_sheets' = all_sheets
              /\ font_set' = font_set
              /\ errors' = Append(errors, [kind |-> "no_panels", code |-> Cur.code])
              /\ mi' = mi + 1
              /\ pc' = "next" ) ]_vars
  /\ [](pc = "done" =>
          /\ errors = EmptyReports(Len(laminate_inputs))
          /\ \A i \in 1..Len(summary_data) :
               \E m \in 1..Len(laminate_inputs) :
                 /\ laminate_inputs[m].code = summary_data[i].code
                 /\ TextPieces(laminate_inputs[m].text) # << >>
          /\ \A i \in 1..Len(all_sheets) :
               \E m \in 1..Len(laminate_inputs) :
                 /\ laminate_inputs[m].code = all_sheets[i].code
                 /\ TextPieces(laminate_inputs[m].text) # << >>)

\* A finished run that reported an empty laminate code, then packed another.
C5_Witness ==
  /\ pc = "done"
  /\ Len(errors) >= 1
  /\ Len(all_sheets) >= 1
  /\ TextPieces(laminate_inputs[1].text) = << >>
  /\ Len(summary_data) >= 1

\* C7: every piece handed to the packer has width >= 1 and height >= 1, and
\* no placed panel has a true dimension <= 0.
C7_PositiveDimensions ==
  Packing =>
    /\ \A i \in 1..Len(pieces) : pieces[i][1] >= 1 /\ pieces[i][2] >= 1
    /\ \A bi \in PlacedAt :
         /\ TrueSize(RectAt(bi), kerf)[1] >= 1
         /\ TrueSize(RectAt(bi), kerf)[2] >= 1

\* The waste rows recorded under a code.
RowsOf(code) ==
  { i \in 1..Len(summary_data) : summary_data[i].code = code }

\* C10: in a finished run the order summary holds, per code, the number of
\* waste rows recorded for it, their sheet numbers being 1..count, and never
\* more than MaxBins.
C10_OrderCounts ==
  pc = "done" =>
    \A e \in 1..Len(all_sheets) :
      /\ all_sheets[e].count = Cardinality(RowsOf(all_sheets[e].code))
      /\ { summary_data[i].sheet : i \in RowsOf(all_sheets[e].code) }
           = 1..all_sheets[e].count
      /\ all_sheets[e].count <= MaxBins

(***************************************************************************)
(* The form of a panel line, read off its tokens: a maximal run of digits  *)
(* is a number N, x or X is a separator, whitespace only separates, and    *)
(* any other character is a token of its own.                              *)
(***************************************************************************)
\* The number a run of digits writes.
RECURSIVE NumberOf(_)
NumberOf(ds) ==
  IF Len(ds) = 0 THEN 0
  ELSE DigitVal(Head(ds)) * 10 ^ (Len(ds) - 1) + NumberOf(Tail(ds))

RECURSIVE DigitRun(_)
DigitRun(s) ==
  IF Len(s) > 0 /\ Head(s) \in Digit THEN <<Head(s)>> \o DigitRun(Tail(s))
  ELSE << >>

RECURSIVE Tokens(_)
Tokens(s) ==
  IF Len(s) = 0 THEN << >>
  ELSE IF Head(s) \in Space THEN Tokens(Tail(s))
  ELSE IF Head(s) \in Digit
       THEN LET run == DigitRun(s)
            IN  <<[t |-> "N", v |-> NumberOf(run)]>>
                \o Tokens(SubSeq(s, Len(run) + 1, Len(s)))
  ELSE IF Head(s) \in Sep THEN <<[t |-> "x", v |-> 0]>> \o Tokens(Tail(s))
  ELSE <<[t |-> "?", v |-> 0]>> \o Tokens(Tail(s))

Shape(ts) == [i \in 1..Len(ts) |-> ts[i].t]

\* The units of a line by the form <width> x <height> [x <quantity>]: the
\* whole line has that form, or it gives nothing.
FormUnits(line) ==
  LET ts == Tokens(line)
  IN  IF Shape(ts) = <<"N", "x", "N">>
      THEN <<<<ts[1].v, ts[3].v>>>>
      ELSE IF Shape(ts) = <<"N", "x", "N", "x", "N">>
      THEN [i \in 1..ts[5].v |-> <<ts[1].v, ts[3].v>>]
      ELSE << >>

\* The units of a line by its beginning alone: <width> x <height>, then any
\* separators, then the quantity if a number comes next; what follows is
\* not read.
PrefixUnits(line) ==
  LET ts == Tokens(line)
      rest == { k \in 4..Len(ts) : ts[k].t # "x" }
      next == IF rest = {} THEN 0
              ELSE CHOOSE k \in rest : \A j \in rest : k <= j
      qty == IF next # 0 /\ ts[next].t = "N" THEN ts[next].v ELSE 1
  IN  IF Len(ts) >= 3 /\ Shape(SubSeq(ts, 1, 3)) = <<"N", "x", "N">>
      THEN [i \in 1..qty |-> <<ts[1].v, ts[3].v>>]
      ELSE << >>

RECURSIVE FormPieces(_, _)
FormPieces(ls, n) ==
  IF n = 0 THEN << >> ELSE FormPieces(ls, n - 1) \o FormUnits(ls[n])

RECURSIVE PrefixPieces(_, _)
PrefixPieces(ls, n) ==
  IF n = 0 THEN << >> ELSE PrefixPieces(ls, n - 1) \o PrefixUnits(ls[n])

\* The lines of the current text parsed so far.
Parsed == IF pc = "parse" THEN li - 1 ELSE Len(lines)

\* C6 as stated: the pieces are, in line order, <quantity> units (1 when the
\* quantity is missing) for every line of the form <width> x <height>
\* [x <quantity>], and nothing for any other line.
C6_FormOnly ==
  pc \in {"parse", "pack", "draw"} => pieces = FormPieces(lines, Parsed)

\* C6 amended: the pieces are, in line order, the units of every line that
\* begins with <width> x <height>, the quantity being the number that follows
\* the height after any run of x, X and whitespace and 1 when no number
\* follows it, whatever the line holds after that; other lines give nothing.
C6_PrefixParse ==
  pc \in {"parse", "pack", "draw"} => pieces = PrefixPieces(lines, Parsed)

\* Two lines are parsed: one with a quantity that gave its units, then one
\* that is not a panel line and gave none.
C6_Witness ==
  /\ pc = "parse"
  /\ li = 3
  /\ Len(pieces) = 2
  /\ Shape(Tokens(lines[1])) = <<"N", "x", "N", "x", "N">>
  /\ PrefixUnits(lines[2]) = << >>
  /\ Len(lines[2]) > 0

=============================================================================
